---- MODULE Spec2Model ----
(***************************************************************************)
(* VulnRelay: the vulnerability collection engine (internal/engine), its   *)
(* TTL cache (internal/cache) and the readers of the published snapshot.   *)
(***************************************************************************)
EXTENDS Integers, Sequences, FiniteSets, TLC

\* ------------------------------------------------------------------ bounds
\* Number of collection cycles one Engine.Start may run.
MaxCycles == 2
\* The clock runs over 1..MaxTime; 0 is the zero time.Time.
MaxTime == 3
\* Capacity of the semaphore channel of collectVulnerabilities (10 in the
\* code, scaled down so that a discovery list can exceed it).
SemaphoreCap == 2
\* Changes a caller makes to one returned map.
MaxMutations == 1
\* The cache's ttl: the clock counts in units of it (30 minutes).
TTL == 1
\* Requests the HTTP server answers.
MaxRequests == 3
MaxObjects == 3

\* ------------------------------------------------------------- data model
URIs == {"a", "b", "c"}

\* types.ImageInfo; Placement stands for (Namespace, Workload, WorkloadType).
ImageInfo(u, p) == [URI |-> u, Placement |-> p]

\* The lists CloudProvider.DiscoverImages may return.
ImageLists ==
    { << >>,
      << ImageInfo("a", "p1") >>,
      << ImageInfo("a", "p1"), ImageInfo("b", "p1") >>,
      << ImageInfo("a", "p2"), ImageInfo("b", "p1"), ImageInfo("c", "p1") >>,
      << ImageInfo("a", "p1"), ImageInfo("a", "p2") >>,
      << ImageInfo("a", "p1"), ImageInfo("b", "p1"), ImageInfo("c", "p2"),
         ImageInfo("b", "p2") >> }

\* The lists of at most two images among them.
ShortLists ==
    { << >>,
      << ImageInfo("a", "p1") >>,
      << ImageInfo("a", "p1"), ImageInfo("b", "p1") >>,
      << ImageInfo("a", "p1"), ImageInfo("a", "p2") >> }

\* Lists with distinct URIs in which image "a" changes its placement.
PlacementLists ==
    { << ImageInfo("a", "p1") >>,
      << ImageInfo("a", "p2"), ImageInfo("b", "p1") >> }

\* The lists of the lock-level cycle: with three workers for one URI one of
\* them can Get while another Sets over the entry of the third.
LockLists ==
    ImageLists
        \cup {<< ImageInfo("a", "p1"), ImageInfo("a", "p2"),
                 ImageInfo("a", "p1") >>}

\* The lists discovered while handlers read the snapshot.
ReaderLists ==
    { << ImageInfo("a", "p1") >>,
      << ImageInfo("a", "p1"), ImageInfo("b", "p1") >> }

MaxImages == CHOOSE n \in 0..8 : /\ \A l \in ImageLists : Len(l) <= n
                                 /\ \E l \in ImageLists : Len(l) = n

Workers == 1..MaxImages

\* HTTP handlers calling Engine.GetVulnerabilityData.
Readers == {1, 2}

\* *types.ImageVulnerability. ref identifies the allocation: the cycle and the
\* worker whose source call returned it (<<0, 0>> with ImageURI "" is nil).
NilVuln == [ImageURI |-> "", ref |-> <<0, 0>>]

\* types.ImageVulnerabilityData: the result with the discovery metadata.
VulnData(v, info) == [vuln |-> v, info |-> info]

\* What a *types.ImageVulnerability points to: the scan of its image.
HeapObject(uri, n) == [ImageURI |-> uri, scan |-> n]

\* A map that holds no pointer.
NoPointers == [u \in {} |-> NilVuln]

\* An empty Go map.
EmptyMap == [u \in {} |-> VulnData(NilVuln, ImageInfo("", ""))]

\* Heap addresses of the maps: the engine's maps are numbered by the cycle that
\* made them (0: NewEngine), a reader's copy is at the negated reader number.
MapOfCycle(c) == c
MapOfReader(r) == 0 - r

VARIABLES
    now,                 \* time.Now()
    cache,               \* VulnerabilityCache.cache: URI -> CacheEntry
    maps,                \* heap: address -> map[string]*ImageVulnerabilityData
    vulnerabilityData,   \* Engine.vulnerabilityData (an address)
    lastCollectionTime,  \* Engine.lastCollectionTime
    mutex,               \* Engine.mutex: [writer, readers]
    spc,                 \* position of the Engine.Start goroutine
    cycle,               \* number of calls of collectVulnerabilities so far
    cycleResult,         \* what the last collectVulnerabilities returned
    images,              \* images of the running cycle
    spawned,             \* iterations of the range loop done
    wpc,                 \* position of each worker goroutine
    wvuln,               \* vuln of each worker
    semaphore,           \* len(semaphore)
    wg,                  \* the WaitGroup counter
    tickerRunning,       \* the ticker of Start exists and is not stopped
    tickPending,         \* a tick is buffered in ticker.C
    cancelled,           \* ctx.Done() is closed
    reader,              \* each caller of GetVulnerabilityData
    pre,                 \* history: the snapshot when the cycle began
    preCache,            \* history: the cache when the cycle began
    published,           \* history: every <<map contents, time>> published
    lastFetch,           \* history: URI -> latest result fetched, and when
    srcCalls,            \* history: source calls begun in this cycle
    cacheOps,            \* history: cache Get/Set calls of this cycle
    atCancel,            \* history: the cycle ctx was cancelled in, its result
    ret,                 \* what the last direct call of the cache returned
    lastSet,             \* history: key -> the latest direct Set, and when
    cleaned,             \* history: the cleanup() passes with no Set since
    responses,           \* the requests served so far, with their responses
    peer,                \* a second Engine: its cache, maps and time
    locks,               \* who holds the cache mutex and the collector mu
    heap                 \* the result structs behind the pointers, and the
                         \* pointers an engine's maps and a reader's copy hold

clockVars == << now, cache >>
engineVars == << maps, vulnerabilityData, lastCollectionTime, mutex >>
ctlVars == << spc, cycle, cycleResult >>
workVars == << images, spawned, wpc, wvuln, semaphore, wg >>
loopVars == << tickerRunning, tickPending, cancelled >>
cycleHist == << pre, preCache, published, lastFetch, srcCalls, cacheOps >>
histVars == << cycleHist, atCancel >>
\* What no step of the engine touches.
callVars == << ret, lastSet, cleaned, responses, peer, heap >>
outerVars == << callVars, locks >>

vars == << clockVars, engineVars, ctlVars, workVars, loopVars, reader,
           histVars, outerVars >>

\* No goroutine holds cache.mutex (readers, writer) or the collector's mu.
NoLocks == [cacheR |-> {}, cacheW |-> {}, mu |-> {}]

\* ------------------------------------------------------------------ cache
\* time.Now().After(entry.ExpiresAt)
Expired(entry, t) == t > entry.ExpiresAt

CacheGetInverted(c, uri, t) ==
    IF uri \notin DOMAIN c THEN NilVuln
    ELSE IF ~Expired(c[uri], t) THEN NilVuln
    ELSE c[uri].Data

CacheGetIgnoresExpiry(c, uri, t) ==
    IF uri \notin DOMAIN c THEN NilVuln ELSE c[uri].Data

\* VulnerabilityCache.Get: nil for a missing or an expired entry.
CacheGet(c, uri, t) ==
    IF uri \notin DOMAIN c THEN NilVuln
    ELSE IF Expired(c[uri], t) THEN NilVuln
    ELSE c[uri].Data

CacheSetKeepsFresh(c, uri, v, t) ==
    IF uri \in DOMAIN c /\ ~Expired(c[uri], t) THEN c
    ELSE [u \in DOMAIN c \cup {uri} |->
            IF u = uri THEN [Data |-> v, ExpiresAt |-> t + TTL] ELSE c[u]]

CacheSetDoubleTTL(c, uri, v, t) ==
    [u \in DOMAIN c \cup {uri} |->
        IF u = uri THEN [Data |-> v, ExpiresAt |-> t + 2 * TTL] ELSE c[u]]

\* VulnerabilityCache.Set
CacheSet(c, uri, v, t) ==
    [u \in DOMAIN c \cup {uri} |->
        IF u = uri THEN [Data |-> v, ExpiresAt |-> t + TTL] ELSE c[u]]

CacheCleanupOnePerPass(c, t) ==
    LET old == {x \in DOMAIN c : Expired(c[x], t)} IN
      IF old = {} THEN c
      ELSE [u \in DOMAIN c \ {CHOOSE x \in old : TRUE} |-> c[u]]

CacheCleanupAtExpiry(c, t) ==
    [u \in {x \in DOMAIN c : t < c[x].ExpiresAt} |-> c[u]]

\* VulnerabilityCache.cleanup
CacheCleanup(c, t) ==
    [u \in {x \in DOMAIN c : ~Expired(c[x], t)} |-> c[u]]

\* The keys and results of the direct calls of the cache.
CacheKeys == {"a", "b"}
CacheValues == {NilVuln, [ImageURI |-> "a", ref |-> <<1, 1>>],
                [ImageURI |-> "a", ref |-> <<2, 1>>]}

\* VulnerabilityCache.Stats: len(c.cache) and the loop counting the entries
\* that have expired.
RECURSIVE CountExpired(_, _, _)
CountExpired(c, keys, t) ==
    IF keys = {} THEN 0
    ELSE LET k == CHOOSE x \in keys : TRUE IN
           (IF Expired(c[k], t) THEN 1 ELSE 0)
               + CountExpired(c, keys \ {k}, t)

CacheStatsSkipsExpired(c, t) ==
    [total |-> Cardinality({k \in DOMAIN c : ~Expired(c[k], t)}),
     expired |-> CountExpired(c, DOMAIN c, t)]

CacheStatsAtExpiry(c, t) ==
    [total |-> Cardinality(DOMAIN c),
     expired |-> Cardinality({k \in DOMAIN c : t >= c[k].ExpiresAt})]

CacheStats(c, t) ==
    [total |-> Cardinality(DOMAIN c),
     expired |-> CountExpired(c, DOMAIN c, t)]

\* No entry (c.cache[k] of a missing key), and the return of no call yet.
NoEntry == [Data |-> NilVuln, ExpiresAt |-> 0]
NoReturn ==
    [op |-> "none", key |-> "", data |-> NilVuln, total |-> 0,
     expired |-> 0, at |-> 0]

\* ----------------------------------------------------------------- engine
\* What GetVulnerabilityData would copy now.
Published == << maps[vulnerabilityData], lastCollectionTime >>

\* The result VulnerabilitySource.GetImageVulnerabilities returns on success:
\* a new struct whose ImageURI is the requested one.
SourceResult(uri, c, i) == [ImageURI |-> uri, ref |-> <<c, i>>]

\* Maps no variable refers to any more are garbage.
Live(m, addrs) == [a \in DOMAIN m \cap addrs |-> m[a]]

ReaderAddrs(rd) == {rd[r].data : r \in {x \in Readers : rd[x].pc = "have"}}

\* m[k] = e
MapPut(m, k, e) == [u \in DOMAIN m \cup {k} |-> IF u = k THEN e ELSE m[u]]

\* delete(m, k)
MapDelete(m, k) == [u \in DOMAIN m \ {k} |-> m[u]]

Init ==
    /\ now = 1
    /\ cache = [u \in {} |-> [Data |-> NilVuln, ExpiresAt |-> 0]]
    /\ maps = [a \in {MapOfCycle(0)} |-> EmptyMap]
    /\ vulnerabilityData = MapOfCycle(0)
    /\ lastCollectionTime = 0
    /\ mutex = [writer |-> "none", readers |-> 0]
    /\ spc = "idle"
    /\ cycle = 0
    /\ cycleResult = "none"
    /\ images = << >>
    /\ spawned = 0
    /\ wpc = [i \in Workers |-> "none"]
    /\ wvuln = [i \in Workers |-> NilVuln]
    /\ semaphore = 0
    /\ wg = 0
    /\ tickerRunning = FALSE
    /\ tickPending = FALSE
    /\ cancelled = FALSE
    /\ reader = [r \in Readers |->
                   [pc |-> "idle", data |-> MapOfReader(r), time |-> 0,
                    muts |-> 0]]
    /\ pre = << EmptyMap, 0 >>
    /\ preCache = cache
    /\ published = { << EmptyMap, 0 >> }
    /\ lastFetch = [u \in {} |-> [result |-> NilVuln, at |-> 0]]
    /\ srcCalls = 0
    /\ cacheOps = 0
    /\ atCancel = "none"
    /\ ret = NoReturn
    /\ lastSet = [u \in {} |-> [Data |-> NilVuln, at |-> 0, prev |-> NoEntry]]
    /\ cleaned = [at |-> 0, passes |-> 0]
    /\ responses = << >>
    /\ locks = NoLocks
    /\ heap = [objs |-> [p \in {} |-> HeapObject("", 0)],
               building |-> NoPointers, data |-> NoPointers,
               reader |-> NoPointers]
    /\ peer = [cache |-> cache, building |-> EmptyMap, data |-> EmptyMap,
               time |-> 0]

\* The positions of Start inside collectVulnerabilities.
InCycle == {"discover", "spawn", "lock", "swap"}

\* Entry of collectVulnerabilities up to the call of DiscoverImages.
BeginCycle ==
    /\ cycle' = cycle + 1
    /\ spc' = "discover"
    /\ cycleResult' = "running"
    /\ images' = << >>
    /\ spawned' = 0
    /\ wpc' = [i \in Workers |-> "none"]
    /\ wvuln' = [i \in Workers |-> NilVuln]
    /\ pre' = Published
    /\ preCache' = cache
    /\ srcCalls' = 0
    /\ cacheOps' = 0
    /\ UNCHANGED << semaphore, wg, published, lastFetch, atCancel >>

\* Engine.Start: the initial collection.
StartEngine ==
    /\ spc = "idle"
    /\ BeginCycle
    /\ UNCHANGED outerVars
    /\ UNCHANGED << clockVars, engineVars, loopVars, reader >>

\* collectVulnerabilities returns to Start, which goes on to the select (the
\* ticker is made after the initial collection).
ReturnToStart(result) ==
    /\ cycleResult' = result
    /\ atCancel' = IF atCancel = "running" THEN result ELSE atCancel
    /\ spc' = "select"
    /\ tickerRunning' = TRUE
    /\ UNCHANGED << cycle, tickPending, cancelled >>

DiscoverOkCarriesOver(list) ==
    /\ spc = "discover"
    /\ images' = list
    /\ maps' = MapPut(maps, MapOfCycle(cycle), maps[vulnerabilityData])
    /\ spc' = "spawn"
    /\ UNCHANGED outerVars
    /\ UNCHANGED << clockVars, vulnerabilityData, lastCollectionTime, mutex,
                    cycle, cycleResult, spawned, wpc, wvuln, semaphore, wg,
                    loopVars, reader, histVars >>

\* DiscoverImages returns a list: the cycle makes newVulnerabilityData.
DiscoverOk(list) ==
    /\ spc = "discover"
    /\ images' = list
    /\ maps' = MapPut(maps, MapOfCycle(cycle), EmptyMap)
    /\ spc' = "spawn"
    /\ UNCHANGED outerVars
    /\ UNCHANGED << clockVars, vulnerabilityData, lastCollectionTime, mutex,
                    cycle, cycleResult, spawned, wpc, wvuln, semaphore, wg,
                    loopVars, reader, histVars >>

DiscoverFailBlanks ==
    /\ spc = "discover"
    /\ maps' = [maps EXCEPT ![vulnerabilityData] = EmptyMap]
    /\ lastCollectionTime' = 0
    /\ ReturnToStart("error")
    /\ UNCHANGED outerVars
    /\ UNCHANGED << clockVars, vulnerabilityData, mutex, workVars, reader,
                    cycleHist >>

DiscoverFailStops ==
    /\ spc = "discover"
    /\ cycleResult' = "error"
    /\ atCancel' = IF atCancel = "running" THEN "error" ELSE atCancel
    /\ spc' = "stopped"
    /\ UNCHANGED outerVars
    /\ UNCHANGED << clockVars, engineVars, cycle, workVars, loopVars, reader,
                    cycleHist >>

\* DiscoverImages returns an error: collectVulnerabilities returns it.
DiscoverFail ==
    /\ spc = "discover"
    /\ ReturnToStart("error")
    /\ UNCHANGED outerVars
    /\ UNCHANGED << clockVars, engineVars, workVars, reader, cycleHist >>

\* One iteration of the range loop: wg.Add(1) and the go statement.
Spawn ==
    /\ spc = "spawn"
    /\ spawned < Len(images)
    /\ spawned' = spawned + 1
    /\ wg' = wg + 1
    /\ wpc' = [wpc EXCEPT ![spawned + 1] = "acquire"]
    /\ UNCHANGED outerVars
    /\ UNCHANGED << clockVars, engineVars, ctlVars, images, wvuln, semaphore,
                    loopVars, reader, histVars >>

AcquireUnbounded(i) ==
    /\ wpc[i] = "acquire"
    /\ semaphore' = semaphore + 1
    /\ wpc' = [wpc EXCEPT ![i] = "get"]
    /\ UNCHANGED outerVars
    /\ UNCHANGED << clockVars, engineVars, ctlVars, images, spawned, wvuln,
                    wg, loopVars, reader, histVars >>

\* semaphore <- struct{}{}
Acquire(i) ==
    /\ wpc[i] = "acquire"
    /\ semaphore < SemaphoreCap
    /\ semaphore' = semaphore + 1
    /\ wpc' = [wpc EXCEPT ![i] = "get"]
    /\ UNCHANGED outerVars
    /\ UNCHANGED << clockVars, engineVars, ctlVars, images, spawned, wvuln,
                    wg, loopVars, reader, histVars >>

GetEvictsExpired(i) ==
    /\ wpc[i] = "get"
    /\ cacheOps' = cacheOps + 1
    /\ LET v == CacheGet(cache, images[i].URI, now) IN
         IF v # NilVuln
         THEN /\ wvuln' = [wvuln EXCEPT ![i] = v]
              /\ wpc' = [wpc EXCEPT ![i] = "store"]
              /\ srcCalls' = srcCalls
              /\ cache' = cache
         ELSE /\ wvuln' = wvuln
              /\ wpc' = [wpc EXCEPT ![i] = "fetch"]
              /\ srcCalls' = srcCalls + 1
              /\ cache' = [u \in DOMAIN cache \ {images[i].URI} |-> cache[u]]
    /\ UNCHANGED outerVars
    /\ UNCHANGED << now, engineVars, ctlVars, images, spawned,
                    semaphore, wg, loopVars, reader, pre, preCache, published,
                    lastFetch, atCancel >>

\* getImageVulnerability: e.cache.Get; on a hit return it, on a miss call the
\* vulnerability source (the call is in flight while the worker is at "fetch").
Get(i) ==
    /\ wpc[i] = "get"
    /\ cacheOps' = cacheOps + 1
    /\ LET v == CacheGet(cache, images[i].URI, now) IN
         IF v # NilVuln
         THEN /\ wvuln' = [wvuln EXCEPT ![i] = v]
              /\ wpc' = [wpc EXCEPT ![i] = "store"]
              /\ srcCalls' = srcCalls
         ELSE /\ wvuln' = wvuln
              /\ wpc' = [wpc EXCEPT ![i] = "fetch"]
              /\ srcCalls' = srcCalls + 1
    /\ UNCHANGED outerVars
    /\ UNCHANGED << clockVars, engineVars, ctlVars, images, spawned,
                    semaphore, wg, loopVars, reader, pre, preCache, published,
                    lastFetch, atCancel >>

\* The source call returns a result: e.cache.Set and return it.
FetchOk(i) ==
    /\ wpc[i] = "fetch"
    /\ LET v == SourceResult(images[i].URI, cycle, i) IN
         /\ cache' = CacheSet(cache, images[i].URI, v, now)
         /\ wvuln' = [wvuln EXCEPT ![i] = v]
         /\ lastFetch' = MapPut(lastFetch, images[i].URI,
                                [result |-> v, at |-> now])
    /\ cacheOps' = cacheOps + 1
    /\ wpc' = [wpc EXCEPT ![i] = "store"]
    /\ UNCHANGED outerVars
    /\ UNCHANGED << now, engineVars, ctlVars, images, spawned, semaphore, wg,
                    loopVars, reader, pre, preCache, published, srcCalls,
                    atCancel >>

\* newVulnerabilityData[imgInfo.URI] = &ImageVulnerabilityData{vuln, imgInfo}
Collect(m, info, v) == MapPut(m, info.URI, VulnData(v, info))

FetchFailStoresNil(i) ==
    /\ wpc[i] = "fetch"
    /\ wpc' = [wpc EXCEPT ![i] = "failed"]
    /\ maps' = [maps EXCEPT ![MapOfCycle(cycle)] =
                  Collect(@, images[i], NilVuln)]
    /\ semaphore' = semaphore - 1
    /\ wg' = wg - 1
    /\ UNCHANGED outerVars
    /\ UNCHANGED << clockVars, vulnerabilityData, lastCollectionTime, mutex,
                    ctlVars, images, spawned, wvuln, loopVars, reader,
                    histVars >>

FetchFailEvicts(i) ==
    /\ wpc[i] = "fetch"
    /\ wpc' = [wpc EXCEPT ![i] = "failed"]
    /\ cache' = MapDelete(cache, images[i].URI)
    /\ semaphore' = semaphore - 1
    /\ wg' = wg - 1
    /\ UNCHANGED outerVars
    /\ UNCHANGED << now, engineVars, ctlVars, images, spawned, wvuln,
                    loopVars, reader, histVars >>

FetchFailRetries(i) ==
    /\ wpc[i] = "fetch"
    /\ wpc' = [wpc EXCEPT ![i] = "get"]
    /\ UNCHANGED outerVars
    /\ UNCHANGED << clockVars, engineVars, ctlVars, images, spawned, wvuln,
                    semaphore, wg, loopVars, reader, histVars >>

FetchFailKeepsSlot(i) ==
    /\ wpc[i] = "fetch"
    /\ wpc' = [wpc EXCEPT ![i] = "failed"]
    /\ wg' = wg - 1
    /\ UNCHANGED outerVars
    /\ UNCHANGED << clockVars, engineVars, ctlVars, images, spawned, wvuln,
                    semaphore, loopVars, reader, histVars >>

\* The source call returns an error: the worker logs it and returns (the
\* deferred calls release the semaphore and call wg.Done).
FetchFail(i) ==
    /\ wpc[i] = "fetch"
    /\ wpc' = [wpc EXCEPT ![i] = "failed"]
    /\ semaphore' = semaphore - 1
    /\ wg' = wg - 1
    /\ UNCHANGED outerVars
    /\ UNCHANGED << clockVars, engineVars, ctlVars, images, spawned, wvuln,
                    loopVars, reader, histVars >>

StoreLoopVariable(i) ==
    /\ wpc[i] = "store"
    /\ maps' = [maps EXCEPT ![MapOfCycle(cycle)] =
                  Collect(@, images[spawned], wvuln[i])]
    /\ wpc' = [wpc EXCEPT ![i] = "done"]
    /\ wvuln' = [wvuln EXCEPT ![i] = NilVuln]
    /\ semaphore' = semaphore - 1
    /\ wg' = wg - 1
    /\ UNCHANGED outerVars
    /\ UNCHANGED << clockVars, vulnerabilityData, lastCollectionTime, mutex,
                    ctlVars, images, spawned, loopVars, reader, histVars >>

StoreReusesEntry(i) ==
    /\ wpc[i] = "store"
    /\ maps' = [maps EXCEPT ![MapOfCycle(cycle)] =
                  IF /\ wvuln[i].ref[1] < cycle
                     /\ images[i].URI \in DOMAIN maps[vulnerabilityData]
                  THEN MapPut(@, images[i].URI,
                              maps[vulnerabilityData][images[i].URI])
                  ELSE Collect(@, images[i], wvuln[i])]
    /\ wpc' = [wpc EXCEPT ![i] = "done"]
    /\ wvuln' = [wvuln EXCEPT ![i] = NilVuln]
    /\ semaphore' = semaphore - 1
    /\ wg' = wg - 1
    /\ UNCHANGED outerVars
    /\ UNCHANGED << clockVars, vulnerabilityData, lastCollectionTime, mutex,
                    ctlVars, images, spawned, loopVars, reader, histVars >>

\* The worker writes its entry under mu and returns (deferred release, Done).
Store(i) ==
    /\ wpc[i] = "store"
    /\ maps' = [maps EXCEPT ![MapOfCycle(cycle)] =
                  Collect(@, images[i], wvuln[i])]
    /\ wpc' = [wpc EXCEPT ![i] = "done"]
    /\ wvuln' = [wvuln EXCEPT ![i] = NilVuln]
    /\ semaphore' = semaphore - 1
    /\ wg' = wg - 1
    /\ UNCHANGED outerVars
    /\ UNCHANGED << clockVars, vulnerabilityData, lastCollectionTime, mutex,
                    ctlVars, images, spawned, loopVars, reader, histVars >>

BarrierEarly ==
    /\ spc = "spawn"
    /\ spawned = Len(images)
    /\ spc' = "lock"
    /\ mutex' = [mutex EXCEPT !.writer = "pending"]
    /\ UNCHANGED outerVars
    /\ UNCHANGED << clockVars, maps, vulnerabilityData, lastCollectionTime,
                    cycle, cycleResult, workVars, loopVars, reader,
                    histVars >>

\* wg.Wait() returns and the cycle calls e.mutex.Lock(): from now on the
\* RWMutex admits no new reader.
Barrier ==
    /\ spc = "spawn"
    /\ spawned = Len(images)
    /\ wg = 0
    /\ spc' = "lock"
    /\ mutex' = [mutex EXCEPT !.writer = "pending"]
    /\ UNCHANGED outerVars
    /\ UNCHANGED << clockVars, maps, vulnerabilityData, lastCollectionTime,
                    cycle, cycleResult, workVars, loopVars, reader,
                    histVars >>

PublishDataChecksContext ==
    /\ spc = "lock"
    /\ mutex.readers = 0
    /\ IF cancelled
       THEN /\ mutex' = [mutex EXCEPT !.writer = "none"]
            /\ ReturnToStart("error")
            /\ UNCHANGED outerVars
            /\ UNCHANGED << clockVars, maps, vulnerabilityData,
                            lastCollectionTime, workVars, reader, cycleHist >>
       ELSE /\ mutex' = [mutex EXCEPT !.writer = "held"]
            /\ vulnerabilityData' = MapOfCycle(cycle)
            /\ maps' = Live(maps, {MapOfCycle(cycle)} \cup ReaderAddrs(reader))
            /\ spc' = "swap"
            /\ UNCHANGED outerVars
            /\ UNCHANGED << clockVars, lastCollectionTime, cycle, cycleResult,
                            workVars, loopVars, reader, histVars >>

\* Lock() returns once no reader is left; e.vulnerabilityData is assigned.
PublishData ==
    /\ spc = "lock"
    /\ mutex.readers = 0
    /\ mutex' = [mutex EXCEPT !.writer = "held"]
    /\ vulnerabilityData' = MapOfCycle(cycle)
    /\ maps' = Live(maps, {MapOfCycle(cycle)} \cup ReaderAddrs(reader))
    /\ spc' = "swap"
    /\ UNCHANGED outerVars
    /\ UNCHANGED << clockVars, lastCollectionTime, cycle, cycleResult,
                    workVars, loopVars, reader, histVars >>

UnlockMissing(m) == m

\* e.mutex.Unlock()
Unlock(m) == [m EXCEPT !.writer = "none"]

\* e.lastCollectionTime is assigned, the mutex released, nil returned.
PublishTime ==
    /\ spc = "swap"
    /\ lastCollectionTime' = now
    /\ mutex' = Unlock(mutex)
    /\ published' = published \cup {<< maps[vulnerabilityData], now >>}
    /\ ReturnToStart("ok")
    /\ UNCHANGED outerVars
    /\ UNCHANGED << clockVars, maps, vulnerabilityData, workVars, reader,
                    pre, preCache, lastFetch, srcCalls, cacheOps >>

\* The ticker sends a tick; ticker.C holds one, further ticks are dropped.
TimerFire ==
    /\ tickerRunning
    /\ ~tickPending
    /\ tickPending' = TRUE
    /\ UNCHANGED outerVars
    /\ UNCHANGED << clockVars, engineVars, ctlVars, workVars, tickerRunning,
                    cancelled, reader, histVars >>

SelectTickSpins ==
    /\ spc = "select"
    /\ cycle < MaxCycles
    /\ tickPending' = FALSE
    /\ BeginCycle
    /\ UNCHANGED outerVars
    /\ UNCHANGED << clockVars, engineVars, tickerRunning, cancelled, reader >>

\* select: case <-ticker.C
SelectTick ==
    /\ spc = "select"
    /\ tickPending
    /\ cycle < MaxCycles
    /\ tickPending' = FALSE
    /\ BeginCycle
    /\ UNCHANGED outerVars
    /\ UNCHANGED << clockVars, engineVars, tickerRunning, cancelled, reader >>

\* select: case <-ctx.Done(); the deferred ticker.Stop() runs.
SelectDone ==
    /\ spc = "select"
    /\ cancelled
    /\ spc' = "stopped"
    /\ tickerRunning' = FALSE
    /\ UNCHANGED outerVars
    /\ UNCHANGED << clockVars, engineVars, cycle, cycleResult, workVars,
                    tickPending, cancelled, reader, histVars >>

\* The caller of Start cancels the context.
Cancel ==
    /\ ~cancelled
    /\ cancelled' = TRUE
    /\ atCancel' = IF spc \in InCycle THEN "running" ELSE atCancel
    /\ UNCHANGED outerVars
    /\ UNCHANGED << clockVars, engineVars, ctlVars, workVars, tickerRunning,
                    tickPending, reader, cycleHist >>

\* Time passes.
AdvanceTime ==
    /\ now < MaxTime
    /\ now' = now + 1
    /\ UNCHANGED outerVars
    /\ UNCHANGED << cache, engineVars, ctlVars, workVars, loopVars, reader,
                    histVars >>

CleanupPrunesSnapshot ==
    /\ cache' = CacheCleanup(cache, now)
    /\ maps' = [maps EXCEPT ![vulnerabilityData] =
                  [k \in DOMAIN @ \ (DOMAIN cache \ DOMAIN cache') |-> @[k]]]
    /\ UNCHANGED outerVars
    /\ UNCHANGED << now, vulnerabilityData, lastCollectionTime, mutex,
                    ctlVars, workVars, loopVars, reader, histVars >>

\* startCleanup: a tick of the cleanup ticker runs cleanup().
Cleanup ==
    /\ cache' = CacheCleanup(cache, now)
    /\ UNCHANGED outerVars
    /\ UNCHANGED << now, engineVars, ctlVars, workVars, loopVars, reader,
                    histVars >>

\* ------------------------------------------- the worker, lock by lock
\* The same worker with every Lock and Unlock of cache.mutex (an RWMutex) and
\* of the collector's mu as a step of its own. A worker is at "get", "set"
\* and "store" before it asks for the lock and at "getting", "setting" and
\* "storing" while it holds it.
workerState ==
    << now, engineVars, ctlVars, images, spawned, semaphore, wg, loopVars,
       reader, pre, preCache, published, atCancel, callVars >>

CacheRLockUnguarded(i) ==
    /\ wpc[i] = "get"
    /\ locks' = [locks EXCEPT !.cacheR = @ \cup {i}]
    /\ wpc' = [wpc EXCEPT ![i] = "getting"]
    /\ UNCHANGED << workerState, cache, wvuln, lastFetch, srcCalls, cacheOps >>

\* cache.Get: c.mutex.RLock()
CacheRLock(i) ==
    /\ wpc[i] = "get"
    /\ locks.cacheW = {}
    /\ locks' = [locks EXCEPT !.cacheR = @ \cup {i}]
    /\ wpc' = [wpc EXCEPT ![i] = "getting"]
    /\ UNCHANGED << workerState, cache, wvuln, lastFetch, srcCalls, cacheOps >>

CacheGetKeepsLock(i) ==
    /\ wpc[i] = "getting"
    /\ cacheOps' = cacheOps + 1
    /\ LET v == CacheGet(cache, images[i].URI, now) IN
         IF v # NilVuln
         THEN /\ wvuln' = [wvuln EXCEPT ![i] = v]
              /\ wpc' = [wpc EXCEPT ![i] = "store"]
              /\ srcCalls' = srcCalls
              /\ locks' = [locks EXCEPT !.cacheR = @ \ {i}]
         ELSE /\ wvuln' = wvuln
              /\ wpc' = [wpc EXCEPT ![i] = "fetch"]
              /\ srcCalls' = srcCalls + 1
              /\ locks' = locks
    /\ UNCHANGED << workerState, cache, lastFetch >>

\* cache.Get: the lookup, the deferred RUnlock and the return; on nil
\* getImageVulnerability goes on to call the source.
CacheGetUnlock(i) ==
    /\ wpc[i] = "getting"
    /\ cacheOps' = cacheOps + 1
    /\ locks' = [locks EXCEPT !.cacheR = @ \ {i}]
    /\ LET v == CacheGet(cache, images[i].URI, now) IN
         IF v # NilVuln
         THEN /\ wvuln' = [wvuln EXCEPT ![i] = v]
              /\ wpc' = [wpc EXCEPT ![i] = "store"]
              /\ srcCalls' = srcCalls
         ELSE /\ wvuln' = wvuln
              /\ wpc' = [wpc EXCEPT ![i] = "fetch"]
              /\ srcCalls' = srcCalls + 1
    /\ UNCHANGED << workerState, cache, lastFetch >>

\* GetImageVulnerabilities returns a result.
SourceReturns(i) ==
    /\ wpc[i] = "fetch"
    /\ wvuln' = [wvuln EXCEPT ![i] = SourceResult(images[i].URI, cycle, i)]
    /\ wpc' = [wpc EXCEPT ![i] = "set"]
    /\ UNCHANGED << workerState, cache, lastFetch, srcCalls, cacheOps, locks >>

\* cache.Set: c.mutex.Lock()
CacheLock(i) ==
    /\ wpc[i] = "set"
    /\ locks.cacheW = {}
    /\ locks.cacheR = {}
    /\ locks' = [locks EXCEPT !.cacheW = {i}]
    /\ wpc' = [wpc EXCEPT ![i] = "setting"]
    /\ UNCHANGED << workerState, cache, wvuln, lastFetch, srcCalls, cacheOps >>

\* cache.Set: the assignment, the deferred Unlock and the return.
CacheSetUnlock(i) ==
    /\ wpc[i] = "setting"
    /\ cache' = CacheSet(cache, images[i].URI, wvuln[i], now)
    /\ lastFetch' = MapPut(lastFetch, images[i].URI,
                           [result |-> wvuln[i], at |-> now])
    /\ cacheOps' = cacheOps + 1
    /\ locks' = [locks EXCEPT !.cacheW = {}]
    /\ wpc' = [wpc EXCEPT ![i] = "store"]
    /\ UNCHANGED << workerState, wvuln, srcCalls >>

\* mu.Lock()
MuLock(i) ==
    /\ wpc[i] = "store"
    /\ locks.mu = {}
    /\ locks' = [locks EXCEPT !.mu = {i}]
    /\ wpc' = [wpc EXCEPT ![i] = "storing"]
    /\ UNCHANGED << workerState, cache, wvuln, lastFetch, srcCalls, cacheOps >>

\* The write into newVulnerabilityData, mu.Unlock() and the worker's return.
StoreUnlock(i) ==
    /\ wpc[i] = "storing"
    /\ maps' = [maps EXCEPT ![MapOfCycle(cycle)] =
                  Collect(@, images[i], wvuln[i])]
    /\ locks' = [locks EXCEPT !.mu = {}]
    /\ wpc' = [wpc EXCEPT ![i] = "done"]
    /\ wvuln' = [wvuln EXCEPT ![i] = NilVuln]
    /\ semaphore' = semaphore - 1
    /\ wg' = wg - 1
    /\ UNCHANGED << clockVars, vulnerabilityData, lastCollectionTime, mutex,
                    ctlVars, images, spawned, loopVars, reader, histVars,
                    callVars >>

\* cleanup() takes c.mutex.Lock() for its pass over the map.
CleanupLocked ==
    /\ locks.cacheW = {}
    /\ locks.cacheR = {}
    /\ Cleanup

\* ------------------------------------------------- direct calls of the cache
\* The variables a direct call of the cache leaves alone.
engineState ==
    << engineVars, ctlVars, workVars, loopVars, reader, histVars, locks,
       heap >>

\* cache.Set(k, v)
SetOp(k, v) ==
    /\ cache' = CacheSet(cache, k, v, now)
    /\ ret' = [NoReturn EXCEPT !.op = "Set", !.key = k, !.data = v,
                               !.at = now]
    /\ lastSet' = MapPut(lastSet, k,
                         [Data |-> v, at |-> now,
                          prev |-> IF k \in DOMAIN cache THEN cache[k]
                                   ELSE NoEntry])
    /\ cleaned' = [at |-> 0, passes |-> 0]
    /\ UNCHANGED << now, responses, peer, engineState >>

\* cache.Get(k)
GetOp(k) ==
    /\ ret' = [NoReturn EXCEPT !.op = "Get", !.key = k,
                               !.data = CacheGet(cache, k, now), !.at = now]
    /\ UNCHANGED << clockVars, lastSet, cleaned, responses, peer, engineState >>

\* cache.cleanup()
CleanupOp ==
    /\ cache' = CacheCleanup(cache, now)
    /\ ret' = [NoReturn EXCEPT !.op = "cleanup", !.at = now]
    /\ cleaned' = [at |-> now,
                   passes |-> IF cleaned.at = now THEN 2 ELSE 1]
    /\ UNCHANGED << now, lastSet, responses, peer, engineState >>

\* cache.Stats()
StatsOp ==
    /\ ret' = [NoReturn EXCEPT !.op = "Stats",
                               !.total = CacheStats(cache, now).total,
                               !.expired = CacheStats(cache, now).expired,
                               !.at = now]
    /\ UNCHANGED << clockVars, lastSet, cleaned, responses, peer, engineState >>

\* ---------------------------------------------------------- a second Engine
NewVulnerabilityCacheSingleton(e) == 1

\* NewEngine, cache.NewVulnerabilityCache: the address of the cache engine e
\* is given, a new one for each engine. The first engine is the one whose
\* cache is the variable cache.
NewVulnerabilityCache(e) == e

\* The images the second engine discovers.
PeerImages == {"a"}

\* The contents of the second engine's cache.
PeerCache ==
    IF NewVulnerabilityCache(2) = NewVulnerabilityCache(1) THEN cache
    ELSE peer.cache

\* The second engine's cache, published map and time.
PeerState == << PeerCache, peer.data, peer.time >>

\* The second engine's cache becomes c.
PeerCacheBecomes(c, p) ==
    IF NewVulnerabilityCache(2) = NewVulnerabilityCache(1)
    THEN cache' = c /\ peer' = p
    ELSE cache' = cache /\ peer' = [p EXCEPT !.cache = c]

\* A worker of the second engine: getImageVulnerability and the write of
\* its entry into the map being built.
PeerFetch(k) ==
    LET hit == CacheGet(PeerCache, k, now)
        v == IF hit # NilVuln THEN hit ELSE SourceResult(k, 0, 0)
    IN  /\ PeerCacheBecomes(
              IF hit # NilVuln THEN PeerCache
              ELSE CacheSet(PeerCache, k, v, now),
              [peer EXCEPT !.building = Collect(@, ImageInfo(k, "p1"), v)])
        /\ UNCHANGED << now, ret, lastSet, cleaned, responses, engineState >>

\* The second engine publishes the map it has built.
PeerPublish ==
    /\ peer' = [peer EXCEPT !.data = peer.building, !.time = now,
                            !.building = EmptyMap]
    /\ UNCHANGED << clockVars, ret, lastSet, cleaned, responses,
                    engineState >>

\* The cleanup goroutine of the second engine's cache.
PeerCleanup ==
    /\ PeerCacheBecomes(CacheCleanup(PeerCache, now), peer)
    /\ UNCHANGED << now, ret, lastSet, cleaned, responses, engineState >>

PeerStep ==
    \/ \E k \in PeerImages : PeerFetch(k)
    \/ PeerPublish
    \/ PeerCleanup

\* ------------------------------------------------- results behind pointers
\* The fetch path with *types.ImageVulnerability as a pointer: a result
\* value of the model is the pointer (its ref the address), heap.objs maps
\* it to the struct it points to, and the cache, the map being built, the
\* published map and a reader's copy hold pointers.
heapFrame ==
    << engineVars, ctlVars, workVars, loopVars, reader, histVars, locks,
       ret, lastSet, cleaned, responses, peer >>

\* The n-th result the source returns points to a new struct.
NewPointer(k) == SourceResult(k, Cardinality(DOMAIN heap.objs) + 1, 0)

HeapFetchOverwrites(k) ==
    LET hit == CacheGet(cache, k, now)
        p == NewPointer(k)
    IN  /\ hit # NilVuln \/ Cardinality(DOMAIN heap.objs) < MaxObjects
        /\ IF hit # NilVuln
           THEN /\ cache' = cache
                /\ heap' = [heap EXCEPT !.building = MapPut(@, k, hit)]
           ELSE IF k \in DOMAIN cache
           THEN /\ cache' = [cache EXCEPT ![k].ExpiresAt = now + TTL]
                /\ heap' = [heap EXCEPT
                      !.objs = MapPut(MapPut(@, p, HeapObject(k, p.ref[1])),
                                      cache[k].Data,
                                      HeapObject(k, p.ref[1])),
                      !.building = MapPut(@, k, cache[k].Data)]
           ELSE /\ cache' = CacheSet(cache, k, p, now)
                /\ heap' = [heap EXCEPT
                      !.objs = MapPut(@, p, HeapObject(k, p.ref[1])),
                      !.building = MapPut(@, k, p)]
        /\ UNCHANGED << now, heapFrame >>

\* A worker: getImageVulnerability (the cached pointer, or the pointer the
\* source returns, which Set stores in a new CacheEntry) and the write of
\* the pointer into the map being built.
HeapFetch(k) ==
    LET hit == CacheGet(cache, k, now)
        p == NewPointer(k)
    IN  /\ hit # NilVuln \/ Cardinality(DOMAIN heap.objs) < MaxObjects
        /\ IF hit # NilVuln
           THEN /\ cache' = cache
                /\ heap' = [heap EXCEPT !.building = MapPut(@, k, hit)]
           ELSE /\ cache' = CacheSet(cache, k, p, now)
                /\ heap' = [heap EXCEPT
                      !.objs = MapPut(@, p, HeapObject(k, p.ref[1])),
                      !.building = MapPut(@, k, p)]
        /\ UNCHANGED << now, heapFrame >>

\* The cycle publishes the map it has built.
HeapPublish ==
    /\ heap' = [heap EXCEPT !.data = heap.building, !.building = NoPointers]
    /\ UNCHANGED << clockVars, heapFrame >>

\* GetVulnerabilityData: the copy holds the pointers of the published map.
HeapRead ==
    /\ heap' = [heap EXCEPT !.reader = heap.data]
    /\ UNCHANGED << clockVars, heapFrame >>

\* cleanup() deletes the expired CacheEntry values.
HeapCleanup ==
    /\ cache' = CacheCleanup(cache, now)
    /\ UNCHANGED << now, heapFrame, heap >>

\* Time passes.
HeapTick ==
    /\ now < MaxTime
    /\ now' = now + 1
    /\ UNCHANGED << cache, heapFrame, heap >>

\* ------------------------------------------------------------ HTTP server
\* r.Method of the requests, and the handlers securityMiddleware wraps.
Methods == {"GET", "HEAD", "POST", "PUT", "DELETE", "get"}
Handlers == {"health", "test"}

\* The headers a response is expected to carry (expectedHeaders of
\* TestSecurityMiddleware).
SecurityHeaders ==
    [h \in {"X-Content-Type-Options", "X-Frame-Options", "X-XSS-Protection",
            "Referrer-Policy", "Content-Security-Policy"} |->
       CASE h = "X-Content-Type-Options" -> "nosniff"
         [] h = "X-Frame-Options" -> "DENY"
         [] h = "X-XSS-Protection" -> "1; mode=block"
         [] h = "Referrer-Policy" -> "strict-origin-when-cross-origin"
         [] h = "Content-Security-Policy" ->
              "default-src 'none'; script-src 'none'; object-src 'none'; frame-ancestors 'none'"]

\* A ResponseWriter nothing has been written to; calls counts the calls of
\* the wrapped handler.
NewResponse == [headers |-> [h \in {} |-> ""], status |-> 0, calls |-> 0]

\* w.Header().Set(k, v)
HeaderSet(w, k, v) ==
    [w EXCEPT !.headers =
        [x \in DOMAIN w.headers \cup {k} |->
            IF x = k THEN v ELSE w.headers[x]]]

\* w.WriteHeader(code): the first status written stays.
WriteHeader(w, code) == IF w.status = 0 THEN [w EXCEPT !.status = code] ELSE w

\* http.Error(w, msg, code)
HttpError(w, code) ==
    WriteHeader(
        HeaderSet(HeaderSet(w, "Content-Type", "text/plain; charset=utf-8"),
                  "X-Content-Type-Options", "nosniff"),
        code)

\* The wrapped handlers: Exporter.healthHandler, and the handler of the
\* middleware's test.
NextHandler(h, w) ==
    LET called == [w EXCEPT !.calls = @ + 1] IN
      IF h = "health"
      THEN WriteHeader(HeaderSet(called, "Content-Type", "application/json"),
                       200)
      ELSE WriteHeader(called, 200)

\* The five w.Header().Set calls of securityMiddleware.
SetSecurityHeaders(w) ==
    HeaderSet(HeaderSet(HeaderSet(HeaderSet(HeaderSet(w,
        "X-Content-Type-Options", "nosniff"),
        "X-Frame-Options", "DENY"),
        "X-XSS-Protection", "1; mode=block"),
        "Referrer-Policy", "strict-origin-when-cross-origin"),
        "Content-Security-Policy",
        "default-src 'none'; script-src 'none'; object-src 'none'; frame-ancestors 'none'")

SecurityMiddlewareFallsThrough(h, m, w) ==
    IF m # "GET" /\ m # "HEAD"
    THEN NextHandler(h, HttpError(SetSecurityHeaders(w), 405))
    ELSE NextHandler(h, SetSecurityHeaders(w))

\* The handler securityMiddleware(next) returns, applied to a request with
\* method m.
SecurityMiddleware(h, m, w) ==
    IF m # "GET" /\ m # "HEAD"
    THEN HttpError(SetSecurityHeaders(w), 405)
    ELSE NextHandler(h, SetSecurityHeaders(w))

\* The server answers a request.
ServeHTTP(h, m) ==
    /\ Len(responses) < MaxRequests
    /\ responses' = Append(responses,
                           [method |-> m, handler |-> h,
                            w |-> SecurityMiddleware(h, m, NewResponse)])
    /\ UNCHANGED << clockVars, ret, lastSet, cleaned, peer, engineState >>

\* ---------------------------------------------------------------- readers
CanRLockUnguarded(m) == TRUE

\* e.mutex.RLock() returns when no writer holds or awaits the mutex.
CanRLock(m) == m.writer = "none"

ReturnedMapShared(r, addr) == addr

\* The address of the map GetVulnerabilityData returns: the copy it made.
ReturnedMap(r, addr) == MapOfReader(r)

\* GetVulnerabilityData: e.mutex.RLock(). The caller lets go of the map an
\* earlier call gave it.
RLock(r) ==
    /\ reader[r].pc \in {"idle", "have"}
    /\ CanRLock(mutex)
    /\ mutex' = [mutex EXCEPT !.readers = @ + 1]
    /\ reader' = [reader EXCEPT ![r].pc = "copy", ![r].muts = 0]
    /\ maps' = Live(maps, {vulnerabilityData, MapOfCycle(cycle)}
                            \cup ReaderAddrs(reader'))
    /\ UNCHANGED outerVars
    /\ UNCHANGED << clockVars, vulnerabilityData, lastCollectionTime,
                    ctlVars, workVars, loopVars, histVars >>

\* GetVulnerabilityData: the copy loop, the return of the copy with
\* e.lastCollectionTime, and the deferred RUnlock.
CopyOut(r) ==
    /\ reader[r].pc = "copy"
    /\ mutex' = [mutex EXCEPT !.readers = @ - 1]
    /\ reader' = [reader EXCEPT
                    ![r].pc = "have",
                    ![r].data = ReturnedMap(r, vulnerabilityData),
                    ![r].time = lastCollectionTime]
    /\ maps' = MapPut(maps, MapOfReader(r), maps[vulnerabilityData])
    /\ UNCHANGED outerVars
    /\ UNCHANGED << clockVars, vulnerabilityData, lastCollectionTime,
                    ctlVars, workVars, loopVars, histVars >>

\* What a caller may do to key k of a map it was given: delete it, or put an
\* entry of its own there.
CallerEntry(k) == VulnData(NilVuln, ImageInfo(k, "caller"))

Mutations(m, k) == {MapDelete(m, k), MapPut(m, k, CallerEntry(k))} \ {m}

\* The caller changes the map it holds.
Mutate(r, k) ==
    /\ reader[r].pc = "have"
    /\ reader[r].muts < MaxMutations
    /\ \E m \in Mutations(maps[reader[r].data], k) :
          maps' = [maps EXCEPT ![reader[r].data] = m]
    /\ reader' = [reader EXCEPT ![r].muts = @ + 1]
    /\ UNCHANGED outerVars
    /\ UNCHANGED << clockVars, vulnerabilityData, lastCollectionTime, mutex,
                    ctlVars, workVars, loopVars, histVars >>

\* --------------------------------------------------------- specifications
\* One call of collectVulnerabilities (the initial collection of Start) over
\* every discovery list, with the cache's clock and cleanup.
Collection(lists) ==
    \/ StartEngine
    \/ \E list \in lists : DiscoverOk(list)
    \/ DiscoverFail
    \/ Spawn
    \/ \E i \in Workers : Acquire(i)
    \/ \E i \in Workers : Get(i)
    \/ \E i \in Workers : FetchOk(i)
    \/ \E i \in Workers : FetchFail(i)
    \/ \E i \in Workers : Store(i)
    \/ Barrier
    \/ PublishData
    \/ PublishTime
    \/ AdvanceTime

NextFanOut ==
    \/ Collection(ImageLists)
    \/ Cleanup

SpecFanOut == Init /\ [][NextFanOut]_vars

\* Engine.Start: the initial collection, then the select loop with its ticker
\* and the context, over the short discovery lists.
Next ==
    \/ Collection(ShortLists)
    \/ Cleanup
    \/ TimerFire
    \/ SelectTick
    \/ SelectDone
    \/ Cancel

Spec == Init /\ [][Next]_vars

\* Engine.Start over discovery lists in which a placement changes from one
\* cycle to the next, the cache entries living on between the cycles.
NextPlacement ==
    \/ Collection(PlacementLists)
    \/ TimerFire
    \/ SelectTick

SpecPlacement == Init /\ [][NextPlacement]_vars

\* One collection cycle with the workers' locks as steps.
NextLocks ==
    \/ StartEngine
    \/ \E list \in LockLists : DiscoverOk(list)
    \/ DiscoverFail
    \/ Spawn
    \/ \E i \in Workers : Acquire(i)
    \/ \E i \in Workers : CacheRLock(i)
    \/ \E i \in Workers : CacheGetUnlock(i)
    \/ \E i \in Workers : SourceReturns(i)
    \/ \E i \in Workers : FetchFail(i)
    \/ \E i \in Workers : CacheLock(i)
    \/ \E i \in Workers : CacheSetUnlock(i)
    \/ \E i \in Workers : MuLock(i)
    \/ \E i \in Workers : StoreUnlock(i)
    \/ Barrier
    \/ PublishData
    \/ PublishTime
    \/ AdvanceTime
    \/ CleanupLocked

SpecLocks == Init /\ [][NextLocks]_vars

\* Fetches, publications, reads and cleanups over the result structs.
NextHeap ==
    \/ \E k \in CacheKeys : HeapFetch(k)
    \/ HeapPublish
    \/ HeapRead
    \/ HeapCleanup
    \/ HeapTick

SpecHeap == Init /\ [][NextHeap]_vars

\* A step of collectVulnerabilities or of one of its workers.
CycleStep(lists) ==
    \/ \E list \in lists : DiscoverOk(list)
    \/ DiscoverFail
    \/ Spawn
    \/ \E i \in Workers : Acquire(i)
    \/ \E i \in Workers : Get(i)
    \/ \E i \in Workers : FetchOk(i)
    \/ \E i \in Workers : FetchFail(i)
    \/ \E i \in Workers : Store(i)
    \/ Barrier
    \/ PublishData
    \/ PublishTime

\* One cycle under the scheduler: as long as the cycle or one of its workers
\* can take a step, one is taken (goroutines that can run do run, and every
\* external call returns).
SpecFanOutFair ==
    /\ Init
    /\ [][NextFanOut]_vars
    /\ WF_vars(CycleStep(ImageLists))

\* Engine.Start and the cancellation of its context.
NextStop ==
    \/ Collection(ReaderLists)
    \/ TimerFire
    \/ SelectTick
    \/ SelectDone
    \/ Cancel

\* Engine.Start under the scheduler: a cycle that can take a step takes one
\* (every external call returns), and a select that finds ctx.Done() closed
\* time and again takes that case in the end (select chooses at random among
\* the cases that are ready).
SpecStop ==
    /\ Init
    /\ [][NextStop]_vars
    /\ WF_vars(CycleStep(ReaderLists))
    /\ SF_vars(SelectDone)

\* The cycles of an engine that is not cancelled, with two handlers calling
\* GetVulnerabilityData.
NextReaders ==
    \/ Collection(ReaderLists)
    \/ spc = "select" /\ TimerFire
    \/ SelectTick
    \/ \E r \in Readers : RLock(r)
    \/ \E r \in Readers : CopyOut(r)

SpecReaders == Init /\ [][NextReaders]_vars

\* The same with one caller that changes the maps it is given.
NextCaller ==
    \/ Collection(ReaderLists)
    \/ spc = "select" /\ TimerFire
    \/ SelectTick
    \/ \E r \in {1} : RLock(r)
    \/ \E r \in {1} : CopyOut(r)
    \/ \E r \in {1}, k \in URIs : Mutate(r, k)

SpecCaller == Init /\ [][NextCaller]_vars

\* A cache of its own (NewVulnerabilityCache) called directly, as the tests
\* of the package do, while time passes.
NextCache ==
    \/ \E k \in CacheKeys, v \in CacheValues : SetOp(k, v)
    \/ \E k \in CacheKeys : GetOp(k)
    \/ CleanupOp
    \/ StatsOp
    \/ AdvanceTime

SpecCache == Init /\ [][NextCache]_vars

\* Two engines made by NewEngine in one process: the first runs a cycle and
\* is read while the second fetches, publishes and cleans its cache.
NextEngines ==
    \/ Collection(ReaderLists)
    \/ Cleanup
    \/ \E r \in {1} : RLock(r)
    \/ \E r \in {1} : CopyOut(r)
    \/ \E k \in PeerImages : PeerFetch(k)
    \/ PeerPublish
    \/ PeerCleanup

SpecEngines == Init /\ [][NextEngines]_vars

\* The HTTP server answering requests through securityMiddleware.
NextHTTP == \E h \in Handlers, m \in Methods : ServeHTTP(h, m)

SpecHTTP == Init /\ [][NextHTTP]_vars

\* ------------------------------------------------------------------ claims
URIsOf(list) == {list[i].URI : i \in 1..Len(list)}

DistinctURIs(list) ==
    \A i, j \in 1..Len(list) : list[i].URI = list[j].URI => i = j

Spawned == 1..spawned

Failed == {i \in Spawned : wpc[i] = "failed"}

InFlight == {i \in Workers : wpc[i] = "fetch"}

\* C1: whatever GetVulnerabilityData has returned to a caller is, map and
\* time together, one snapshot the engine published (the initial empty one
\* included): never the new map with the old time, nor a map being built.
SnapshotAtomicity ==
    \A r \in Readers :
        (reader[r].pc = "have" /\ reader[r].muts = 0)
            => << maps[reader[r].data], reader[r].time >> \in published

\* A reader holds the snapshot from before a swap while the other one has
\* been given the snapshot published by the swap.
SnapshotAtomicityWitness ==
    \E r1, r2 \in Readers :
        /\ reader[r1].pc = "have"
        /\ reader[r2].pc = "have"
        /\ reader[r1].time > 0
        /\ reader[r1].time < reader[r2].time
        /\ maps[reader[r1].data] # maps[reader[r2].data]
        /\ << maps[reader[r2].data], reader[r2].time >> = Published

\* C2: when DiscoverImages fails, collectVulnerabilities returns the error,
\* the published map and time are those from before the cycle, and the cycle
\* has called neither the vulnerability source nor the cache.
AbortOnDiscoveryFailure ==
    cycleResult = "error"
        => /\ Published = pre
           /\ srcCalls = 0
           /\ cacheOps = 0
           /\ \A i \in Workers : wpc[i] = "none"

\* The second cycle failed at discovery after the first one had published a
\* snapshot with entries.
AbortOnDiscoveryFailureWitness ==
    /\ cycleResult = "error"
    /\ cycle = 2
    /\ pre[2] > 0
    /\ pre[1] # EmptyMap

\* C3: a finished cycle that discovered images with distinct URIs, began with
\* an empty cache and had the source fail for exactly one image has published
\* exactly the other URIs and returned no error.
PerImageIsolation ==
    (/\ spc = "select"
     /\ Len(images) > 0
     /\ DistinctURIs(images)
     /\ DOMAIN preCache = {}
     /\ Cardinality(Failed) = 1)
        => /\ cycleResult = "ok"
           /\ DOMAIN Published[1]
                = URIsOf(images) \ {images[i].URI : i \in Failed}
           /\ Cardinality(DOMAIN Published[1]) = Len(images) - 1

\* Three distinct images, one failed, two published.
PerImageIsolationWitness ==
    /\ spc = "select"
    /\ Len(images) = 3
    /\ DistinctURIs(images)
    /\ DOMAIN preCache = {}
    /\ Cardinality(Failed) = 1
    /\ Cardinality(DOMAIN Published[1]) = 2

\* C4: at most SemaphoreCap calls of GetImageVulnerabilities are in flight.
BoundedConcurrency == Cardinality(InFlight) <= SemaphoreCap

\* SemaphoreCap calls are in flight and a further worker waits for a slot.
BoundedConcurrencyWitness ==
    /\ Cardinality(InFlight) = SemaphoreCap
    /\ \E i \in Workers : wpc[i] = "acquire"

\* C5: while the ttl has not passed since a source call for a URI succeeded,
\* the cache returns the result that call stored; and a worker whose Get finds
\* an entry that is not expired takes that result and makes no source call.
CacheHitSuppressesFetch ==
    /\ [](\A u \in DOMAIN lastFetch :
            now <= lastFetch[u].at + TTL
                => CacheGet(cache, u, now) = lastFetch[u].result)
    /\ [][\A i \in Workers :
            (/\ wpc[i] = "get"
             /\ wpc'[i] # "get"
             /\ images[i].URI \in DOMAIN cache
             /\ ~Expired(cache[images[i].URI], now))
                => /\ wpc'[i] = "store"
                   /\ wvuln'[i] = cache[images[i].URI].Data
                   /\ srcCalls' = srcCalls]_vars

\* A worker of the second cycle holds the result a source call of the first
\* cycle stored, and the second cycle has made no source call.
CacheHitSuppressesFetchWitness ==
    /\ cycle = 2
    /\ srcCalls = 0
    /\ \E i \in Workers :
          /\ wpc[i] = "store"
          /\ wvuln[i].ref[1] = 1
          /\ wvuln[i] = lastFetch[images[i].URI].result

CollectedAtMonotonic ==
    [][/\ lastCollectionTime' >= lastCollectionTime
       /\ \A r \in Readers : reader'[r].time >= reader[r].time]_vars

\* A reader that was given the time of the first cycle is inside its next
\* call, which will return the later time of the second cycle; the other
\* reader still holds the initial snapshot.
CollectedAtMonotonicWitness ==
    \E r \in Readers :
        /\ reader[r].pc = "copy"
        /\ reader[r].time > 0
        /\ reader[r].time < lastCollectionTime
        /\ cycle = 2

\* C9: a caller changing a map it was given leaves the published snapshot as
\* it is, and no step other than the caller's own changes a map it holds.
ReturnedMapIsolated ==
    [][/\ (\E r \in Readers, k \in URIs : Mutate(r, k))
            => Published' = Published
       /\ \A r \in Readers :
            (reader[r].pc = "have" /\ reader'[r] = reader[r])
                => maps'[reader[r].data] = maps[reader[r].data]]_vars

\* A caller has changed the map it was given by the first cycle, and the
\* second cycle has since published another snapshot.
ReturnedMapIsolatedWitness ==
    \E r \in Readers :
        /\ reader[r].pc = "have"
        /\ reader[r].muts > 0
        /\ reader[r].time > 0
        /\ reader[r].time < lastCollectionTime
        /\ maps[reader[r].data] # maps[vulnerabilityData]

\* C10: while a cycle awaits DiscoverImages or its workers, a reader that
\* calls GetVulnerabilityData gets the read lock, and one that has it returns.
ReadersNeverWaitForCycle ==
    spc \in {"discover", "spawn"}
        => \A r \in Readers :
              /\ reader[r].pc \in {"idle", "have"} => ENABLED RLock(r)
              /\ reader[r].pc = "copy" => ENABLED CopyOut(r)

\* A reader is inside GetVulnerabilityData while a source call is in flight,
\* and another one has been given the snapshot of the first cycle meanwhile.
ReadersNeverWaitForCycleWitness ==
    /\ spc = "spawn"
    /\ cycle = 2
    /\ InFlight # {}
    /\ \E r1, r2 \in Readers :
          /\ reader[r1].pc = "copy"
          /\ reader[r2].pc = "have"
          /\ reader[r2].time = lastCollectionTime

\* C11: Start runs the first cycle at once and to its end before the ticker
\* exists: while the first cycle runs no tick has occurred, Start waits in its
\* select only after a cycle has returned, and a step that begins a cycle is
\* either the first one, from the start with no ticker, or takes a tick out
\* of ticker.C.
InitialCycleThenTicks ==
    /\ []((cycle = 0 \/ (cycle = 1 /\ cycleResult = "running"))
            => ~tickerRunning /\ ~tickPending)
    /\ [](spc = "select" => cycle >= 1 /\ cycleResult \in {"ok", "error"})
    /\ [][cycle' # cycle
            => /\ cycle' = cycle + 1
               /\ spc' = "discover"
               /\ \/ cycle = 0 /\ spc = "idle"
                  \/ /\ cycle >= 1
                     /\ spc = "select"
                     /\ tickPending
                     /\ ~tickPending']_vars

\* The second cycle is at its DiscoverImages call: the tick that began it has
\* been taken out of ticker.C.
InitialCycleThenTicksWitness ==
    /\ cycle = 2
    /\ spc = "discover"
    /\ tickerRunning
    /\ ~tickPending

\* C12 as stated: a cycle that was in flight when the context was cancelled
\* has published by the time Start has returned.
CancelledCyclePublishes ==
    (spc = "stopped" /\ atCancel # "none") => atCancel = "ok"

\* C12: once the context is cancelled a started engine stops; when it has, the
\* cycle that was in flight at the cancellation has run to its end, which is
\* its publish step unless its DiscoverImages call failed; and once Start has
\* returned the published map and time never change.
StopsAfterCycle ==
    /\ (cancelled /\ spc # "idle") ~> (spc = "stopped")
    /\ [](spc = "stopped"
            => cycleResult \in {"ok", "error"} /\ atCancel # "running")
    /\ [][/\ (atCancel = "running" /\ atCancel' # "running")
               => \/ atCancel' = "ok" /\ spc = "swap"
                  \/ atCancel' = "error" /\ spc = "discover"
          /\ spc = "stopped"
               => spc' = "stopped" /\ Published' = Published]_vars

\* Start has returned after a cancellation that arrived while the second
\* cycle was running, and that cycle has published.
StopsAfterCycleWitness ==
    /\ spc = "stopped"
    /\ cycle = 2
    /\ atCancel = "ok"
    /\ Published[1] # pre[1]

\* C13: a Get(k) returns the result of the latest Set(k, r) when it is called
\* less than the ttl after that Set, and nil when it is called more than the
\* ttl after it, whether or not the entry is still in the map.
CacheExpiry ==
    (ret.op = "Get" /\ ret.key \in DOMAIN lastSet)
        => /\ ret.at < lastSet[ret.key].at + TTL
                => ret.data = lastSet[ret.key].Data
           /\ ret.at > lastSet[ret.key].at + TTL
                => ret.data = NilVuln

\* A Get has just returned nil for a key whose entry, set with a result more
\* than the ttl ago, is still in the map.
CacheExpiryWitness ==
    /\ ret.op = "Get"
    /\ ret.at = now
    /\ ret.key \in DOMAIN lastSet
    /\ ret.key \in DOMAIN cache
    /\ cache[ret.key].Data = lastSet[ret.key].Data
    /\ lastSet[ret.key].Data # NilVuln
    /\ now > lastSet[ret.key].at + TTL
    /\ ret.data = NilVuln

\* C14: the Get of a worker (hit, miss or expired) leaves the cache as it is;
\* the Set after a fetch adds or replaces the entry of its key and leaves
\* every other entry as it is; and a key leaves the cache only in a step of
\* cleanup() that finds its entry expired, never in a step of a cycle.
OnlyCleanupRemoves ==
    [][/\ \A i \in Workers :
            (wpc[i] = "get" /\ wpc'[i] # "get") => cache' = cache
       /\ \A i \in Workers :
            (wpc[i] = "fetch" /\ wpc'[i] = "store")
                => /\ DOMAIN cache' = DOMAIN cache \cup {images[i].URI}
                   /\ \A k \in DOMAIN cache \ {images[i].URI} :
                         cache'[k] = cache[k]
       /\ \A k \in DOMAIN cache \ DOMAIN cache' :
            Cleanup /\ Expired(cache[k], now)]_vars

\* The second cycle has published without an image the first one fetched:
\* the entry of that image, expired, is still in the cache.
OnlyCleanupRemovesWitness ==
    /\ cycle = 2
    /\ cycleResult = "ok"
    /\ \E k \in DOMAIN cache :
          /\ k \notin URIsOf(images)
          /\ k \in DOMAIN preCache
          /\ cache[k] = preCache[k]
          /\ Expired(cache[k], now)

\* C15: the step of a Set(k, r2) at time t leaves the map with the entry
\* (r2, t + ttl) under k, whatever was there, and with every other entry as
\* it was; and a Get(k) that follows it before t + ttl returns r2.
SetOverwrites ==
    /\ [][\A k \in CacheKeys, v \in CacheValues :
            SetOp(k, v)
                => /\ DOMAIN cache' = DOMAIN cache \cup {k}
                   /\ cache'[k] = [Data |-> v, ExpiresAt |-> now + TTL]
                   /\ \A u \in DOMAIN cache \ {k} : cache'[u] = cache[u]]_vars
    /\ [](\A k \in DOMAIN lastSet :
            now < lastSet[k].at + TTL
                => /\ k \in DOMAIN cache
                   /\ cache[k] = [Data |-> lastSet[k].Data,
                                  ExpiresAt |-> lastSet[k].at + TTL]
                   /\ CacheGet(cache, k, now) = lastSet[k].Data)
    /\ []((ret.op = "Get" /\ ret.key \in DOMAIN lastSet
              /\ ret.at < lastSet[ret.key].at + TTL)
            => ret.data = lastSet[ret.key].Data)

\* A Get has returned the result of a Set that replaced an entry holding
\* another result which had not expired.
SetOverwritesWitness ==
    /\ ret.op = "Get"
    /\ ret.key \in DOMAIN lastSet
    /\ ret.data = lastSet[ret.key].Data
    /\ ret.data # NilVuln
    /\ lastSet[ret.key].prev.Data # NilVuln
    /\ lastSet[ret.key].prev.Data # ret.data
    /\ ~Expired(lastSet[ret.key].prev, lastSet[ret.key].at)

\* C16: a cleanup pass at time now leaves in the map exactly the keys whose
\* entry had an expiresAt not before now, each with the entry it had, and a
\* Get of each of them right after returns its data.
CleanupRemovesExpired ==
    [][CleanupOp
         => /\ \A k \in CacheKeys :
                  k \in DOMAIN cache'
                      <=> (k \in DOMAIN cache /\ cache[k].ExpiresAt >= now)
            /\ \A k \in DOMAIN cache' :
                  /\ cache'[k] = cache[k]
                  /\ CacheGet(cache', k, now') = cache[k].Data]_vars

\* A cleanup pass has just run: an entry set more than the ttl ago is gone
\* and another one, which expires at this very time, is still there.
CleanupRemovesExpiredWitness ==
    /\ ret.op = "cleanup"
    /\ ret.at = now
    /\ \E k1, k2 \in DOMAIN lastSet :
          /\ k1 \notin DOMAIN cache
          /\ lastSet[k1].at + TTL < now
          /\ k2 \in DOMAIN cache
          /\ cache[k2].ExpiresAt = now
          /\ cache[k2].Data # NilVuln

\* C17: a cleanup pass that follows another one at the same clock reading
\* with no Set in between leaves the map as it is, and a Stats that follows
\* cleanup passes at that reading reports no expired entry.
CleanupIdempotent ==
    /\ [][(CleanupOp /\ cleaned.at = now) => cache' = cache]_vars
    /\ []((ret.op = "Stats" /\ ret.at = cleaned.at) => ret.expired = 0)

\* Stats has returned after two cleanup passes in a row; both entries that
\* had been set are gone.
CleanupIdempotentWitness ==
    /\ ret.op = "Stats"
    /\ ret.at = cleaned.at
    /\ cleaned.passes = 2
    /\ DOMAIN lastSet = CacheKeys
    /\ DOMAIN cache = {}
    /\ ret.total = 0

\* C18: what Stats returns is the number of entries in the map, the expired
\* ones included, and the number of those whose expiresAt is in the past, so
\* that 0 <= expired <= total; and a call of Stats changes nothing.
StatsConsistent ==
    /\ [](LET st == CacheStats(cache, now) IN
            /\ st.total = Cardinality(DOMAIN cache)
            /\ st.expired
                 = Cardinality({k \in DOMAIN cache : cache[k].ExpiresAt < now})
            /\ st.total - st.expired
                 = Cardinality({k \in DOMAIN cache :
                                  cache[k].ExpiresAt >= now})
            /\ 0 <= st.expired
            /\ st.expired <= st.total)
    /\ []((ret.op = "Stats" /\ ret.at = now)
            => /\ ret.total = Cardinality(DOMAIN cache)
               /\ ret.expired
                    = Cardinality({k \in DOMAIN cache :
                                     cache[k].ExpiresAt < now})
               /\ 0 <= ret.expired
               /\ ret.expired <= ret.total)
    /\ [][StatsOp => cache' = cache /\ now' = now]_vars

\* Stats has returned 2 and 1: of two entries in the map one has expired.
StatsConsistentWitness ==
    /\ ret.op = "Stats"
    /\ ret.at = now
    /\ ret.total = 2
    /\ ret.expired = 1

\* C20: a request whose method is neither GET nor HEAD is answered 405 and
\* the wrapped handler is not called; for GET and HEAD the wrapped handler
\* is called once; every response carries the five security headers.
MethodGate ==
    \A i \in 1..Len(responses) :
        LET r == responses[i] IN
          /\ r.method \notin {"GET", "HEAD"}
                => r.w.status = 405 /\ r.w.calls = 0
          /\ r.method \in {"GET", "HEAD"} => r.w.calls = 1
          /\ \A k \in DOMAIN SecurityHeaders :
                /\ k \in DOMAIN r.w.headers
                /\ r.w.headers[k] = SecurityHeaders[k]

\* A POST has been refused and a GET and a HEAD have been served.
MethodGateWitness ==
    /\ \E i \in 1..Len(responses) :
          responses[i].method = "POST" /\ responses[i].w.status = 405
    /\ \E i \in 1..Len(responses) :
          /\ responses[i].method = "GET"
          /\ responses[i].w.status = 200
          /\ responses[i].handler = "health"
    /\ \E i \in 1..Len(responses) :
          responses[i].method = "HEAD" /\ responses[i].w.calls = 1

\* C19: a step of the second engine leaves the first engine's cache,
\* published map and collection time as they are, and a step of the first
\* engine leaves the second engine's as they are.
EnginesIndependent ==
    [][/\ PeerStep => (cache' = cache /\ Published' = Published)
       /\ ~PeerStep => PeerState' = PeerState]_vars

\* Both engines have published and hold, for the same image, entries of
\* their own in their caches.
EnginesIndependentWitness ==
    /\ lastCollectionTime > 0
    /\ peer.time > 0
    /\ "a" \in DOMAIN Published[1]
    /\ "a" \in DOMAIN peer.data
    /\ Published[1]["a"].vuln # peer.data["a"].vuln
    /\ "a" \in DOMAIN cache
    /\ "a" \in DOMAIN peer.cache
    /\ cache["a"] # peer.cache["a"]

\* C21: a cycle whose discovery succeeded returns no error and has published
\* a map whose keys are exactly the URIs of the workers that got a result,
\* each entry built by one of them, with the time of the publish step; what
\* the snapshot held before is not carried over.
WholesaleReplace ==
    /\ []((spc \in {"select", "stopped"} /\ cycleResult = "ok")
            => /\ spawned = Len(images)
               /\ \A i \in Spawned : wpc[i] \in {"done", "failed"}
               /\ DOMAIN Published[1]
                    = {images[i].URI : i \in Spawned \ Failed}
               /\ \A k \in DOMAIN Published[1] :
                     \E i \in Spawned \ Failed :
                        Published[1][k].info = images[i]
               /\ Published \in published
               /\ Published[2] >= pre[2])
    /\ [][/\ (spc = "swap" /\ spc' # "swap")
               => cycleResult' = "ok" /\ lastCollectionTime' = now
          /\ (cycleResult # "error" /\ cycleResult' = "error")
               => spc = "discover"]_vars

\* The second cycle discovered images and every fetch failed: it returned no
\* error and replaced a snapshot with entries by an empty one with a later
\* time.
WholesaleReplaceWitness ==
    /\ spc = "select"
    /\ cycle = 2
    /\ cycleResult = "ok"
    /\ Len(images) > 0
    /\ Failed = Spawned
    /\ pre[1] # EmptyMap
    /\ Published[1] = EmptyMap
    /\ Published[2] > pre[2]

\* C22: the cycle reaches its publish step (the lock, the swap and the write
\* of the time) only when every image of the list has a worker and every
\* worker has finished, with a result or with an error; and once the cycle's
\* map is the published one no step writes into it.
WaitForAll ==
    /\ []((spc \in {"lock", "swap"}
             \/ (spc \in {"select", "stopped"} /\ cycleResult = "ok"))
            => /\ spawned = Len(images)
               /\ \A i \in Spawned : wpc[i] \in {"done", "failed"}
               /\ InFlight = {}
               /\ wg = 0
               /\ semaphore = 0)
    /\ [][(cycle >= 1 /\ vulnerabilityData = MapOfCycle(cycle))
            => /\ vulnerabilityData' = vulnerabilityData
               /\ maps'[vulnerabilityData] = maps[vulnerabilityData]]_vars

\* The cycle is at its lock after four workers, of which one failed and one
\* stored a result.
WaitForAllWitness ==
    /\ spc = "lock"
    /\ Len(images) = MaxImages
    /\ Failed # {}
    /\ Failed # Spawned

\* C23: a cycle begins only when Start is not inside a cycle: the previous
\* cycle has returned (published or aborted), none of its workers is left
\* and the snapshot mutex is not write-held; only a cycle in flight holds or
\* awaits the write lock; and every publication installs the map of the
\* cycle in flight, from that cycle's lock step, no earlier publication
\* bearing a later time.
CyclesNeverOverlap ==
    /\ [](mutex.writer # "none"
            => (spc \in {"lock", "swap"} /\ cycleResult = "running"))
    /\ [](spc \in InCycle <=> cycleResult = "running")
    /\ [][/\ cycle' # cycle
               => /\ cycle' = cycle + 1
                  /\ spc \in {"idle", "select"}
                  /\ cycleResult # "running"
                  /\ \A i \in Workers : wpc[i] \in {"none", "done", "failed"}
                  /\ wg = 0
                  /\ semaphore = 0
                  /\ mutex.writer = "none"
          /\ vulnerabilityData' # vulnerabilityData
               => /\ vulnerabilityData' = MapOfCycle(cycle)
                  /\ cycle' = cycle
                  /\ spc = "lock"
                  /\ \A p \in published : p[2] <= now]_vars

\* The second cycle is still fetching when the ticker fires again: the tick
\* waits in the channel and no cycle has begun.
CyclesNeverOverlapWitness ==
    /\ cycle = 2
    /\ spc = "spawn"
    /\ InFlight # {}
    /\ tickPending

\* C24: while Start waits in its select between two cycles and the context
\* is cancelled, no step begins another cycle (no further call of
\* DiscoverImages), whether or not a tick is waiting in the ticker's channel.
NoCycleAfterCancel ==
    [][(cancelled /\ spc = "select") => cycle' = cycle]_vars

\* C25: when the context has been cancelled during a cycle, a worker of that
\* cycle that is still waiting for a semaphore slot makes no call to the
\* Vulnerability Source in that cycle.
CancelSkipsWaiting ==
    \A c \in 1..MaxCycles : \A i \in Workers :
        []((atCancel = "running" /\ cycle = c /\ wpc[i] = "acquire")
            => [](cycle = c => wpc[i] # "fetch"))

\* C26: the workers of one cycle whose images have the same URI never have
\* two calls to the Vulnerability Source for that URI in progress together
\* (which would be two calls within the TTL window).
ConcurrentFetchSuppressed ==
    \A i, j \in Spawned :
        (i # j /\ images[i].URI = images[j].URI)
            => ~(wpc[i] = "fetch" /\ wpc[j] = "fetch")

\* C27: a cycle starts with its one call of DiscoverImages, which ends in
\* the fan-out or in the cycle's return with the error; the source calls of
\* a cycle are at most one per worker that reached its cache lookup; a
\* source call ends in a result or in the worker's failure, and a failed
\* worker stays failed until a later cycle begins.
NoRetry ==
    /\ [](srcCalls <= Cardinality({i \in Spawned :
              wpc[i] \in {"fetch", "failed", "store", "done"}}))
    /\ [](Cardinality(Failed \cup InFlight) <= srcCalls)
    /\ [][/\ cycle' # cycle => spc' = "discover"
          /\ (spc' = "discover" /\ spc # "discover") => cycle' = cycle + 1
          /\ (spc = "discover" /\ spc' # "discover")
               => /\ cycle' = cycle
                  /\ \/ spc' = "spawn"
                     \/ spc' = "select" /\ cycleResult' = "error"
          /\ \A i \in Workers :
               /\ wpc[i] = "fetch" => wpc'[i] \in {"fetch", "store", "failed"}
               /\ wpc[i] = "failed"
                    => (wpc'[i] = "failed" \/ cycle' = cycle + 1)]_vars

\* The second cycle has ended with one worker served from the cache (no
\* source call for it) and one worker whose single source call failed.
NoRetryWitness ==
    /\ spc = "select"
    /\ cycle = 2
    /\ spawned = 2
    /\ srcCalls = 1
    /\ Cardinality(Failed) = 1

\* C28: when a cycle with a discovery list of distinct URIs has published,
\* every entry of the snapshot carries the placement of the image of that
\* URI in this cycle's list, and the result some call of the source returned
\* for that URI, in this cycle or (served from the cache) an earlier one.
PlacementFromCycle ==
    (spc = "select" /\ cycleResult = "ok" /\ DistinctURIs(images))
        => \A k \in DOMAIN Published[1] :
             \E i \in Spawned :
                /\ images[i].URI = k
                /\ Published[1][k].info = images[i]
                /\ Published[1][k].vuln.ImageURI = k
                /\ Published[1][k].vuln.ref[1] \in 1..cycle

\* The second cycle has published image "a" with its new placement and with
\* the result the first cycle stored in the cache, when the image had
\* another placement.
PlacementFromCycleWitness ==
    /\ spc = "select"
    /\ cycle = 2
    /\ cycleResult = "ok"
    /\ DistinctURIs(images)
    /\ "a" \in DOMAIN pre[1] \cap DOMAIN Published[1]
    /\ pre[1]["a"].info.Placement = "p1"
    /\ Published[1]["a"].info.Placement = "p2"
    /\ Published[1]["a"].vuln.ref[1] = 1

\* C29: a handler is inside GetVulnerabilityData, or has been answered by
\* it, only when the engine's first collection cycle has returned.
WarmedBeforeTraffic ==
    \A r \in Readers :
        reader[r].pc # "idle"
            => (cycle >= 2 \/ (cycle = 1 /\ spc \notin InCycle))

\* C30: while DiscoverImages is in progress the Start goroutine does not
\* hold the snapshot mutex, and a worker whose source call is in progress
\* holds neither the cache mutex nor the collector mutex; a worker holds the
\* cache mutex only inside its Get or Set, the collector mutex only for its
\* write into the new map, and the snapshot mutex is write-held only for the
\* swap.
NoLockSpansCall ==
    /\ spc = "discover" => mutex.writer = "none"
    /\ mutex.writer = "held" => spc = "swap"
    /\ \A i \in Workers :
         /\ wpc[i] = "fetch"
              => i \notin (locks.cacheR \cup locks.cacheW \cup locks.mu)
         /\ i \in locks.cacheR => wpc[i] = "getting"
         /\ i \in locks.cacheW => wpc[i] = "setting"
         /\ i \in locks.mu => wpc[i] = "storing"

\* One worker's source call is in progress, after its Get has released the
\* cache mutex, while another worker holds the cache mutex for its Set.
NoLockSpansCallWitness ==
    /\ InFlight # {}
    /\ locks.cacheW # {}
    /\ locks.cacheW \cap InFlight = {}

\* The pointers the cache, the map being built, the published map and the
\* reader's copy hold.
HeapPointers ==
    {cache[k].Data : k \in DOMAIN cache}
        \cup {heap.building[k] : k \in DOMAIN heap.building}
        \cup {heap.data[k] : k \in DOMAIN heap.data}
        \cup {heap.reader[k] : k \in DOMAIN heap.reader}

\* C31: every result struct holds what the source returned in it, no step
\* changes or frees a struct, and every pointer held anywhere points to
\* one; a Set for a key whose old result is still referenced leaves that
\* result as it was.
ResultsImmutable ==
    /\ [](\A p \in DOMAIN heap.objs :
             heap.objs[p] = HeapObject(p.ImageURI, p.ref[1]))
    /\ [](HeapPointers \subseteq DOMAIN heap.objs)
    /\ [][\A p \in DOMAIN heap.objs :
             /\ p \in DOMAIN heap.objs'
             /\ heap.objs'[p] = heap.objs[p]]_vars

\* A reader's copy and the cache hold different results for one key: a
\* later Set has installed a new result, and the one the reader was given
\* is as the source returned it.
ResultsImmutableWitness ==
    \E k \in DOMAIN heap.reader \cap DOMAIN cache :
        /\ cache[k].Data # heap.reader[k]
        /\ cache[k].Data.ref[1] > heap.reader[k].ref[1]
        /\ heap.objs[heap.reader[k]]
             = HeapObject(k, heap.reader[k].ref[1])

\* C32: at most SemaphoreCap worker goroutines of a cycle exist at one time,
\* those waiting for a semaphore slot included.
WorkersBounded ==
    Cardinality({i \in Workers :
                   wpc[i] \in {"acquire", "get", "fetch", "store"}})
        <= SemaphoreCap

\* C33: while a Set holds the cache mutex no Get holds it and no second Set
\* does; a Get reads the map when no Set is in progress, and over an
\* unexpired entry it returns that entry's result, whole, which is the
\* result a worker that has finished its Set stored for the key; otherwise
\* it reports a miss.
AtomicCacheOps ==
    /\ [](locks.cacheW # {}
            => /\ locks.cacheR = {}
               /\ Cardinality(locks.cacheW) = 1)
    /\ [][\A i \in Workers :
            (wpc[i] = "getting" /\ wpc'[i] # "getting")
                => /\ locks.cacheW = {}
                   /\ IF /\ images[i].URI \in DOMAIN cache
                         /\ ~Expired(cache[images[i].URI], now)
                      THEN /\ wpc'[i] = "store"
                           /\ wvuln'[i] = cache[images[i].URI].Data
                           /\ \E j \in Spawned :
                                 /\ images[j].URI = images[i].URI
                                 /\ wpc[j] \in {"store", "storing", "done"}
                                 /\ wvuln'[i]
                                     = SourceResult(images[i].URI, cycle, j)
                      ELSE wpc'[i] = "fetch"]_vars

\* A worker holds the read lock for its Get of a key whose entry is
\* unexpired while another worker is about to Set the same key.
AtomicCacheOpsWitness ==
    \E i, j \in Spawned :
        /\ i # j
        /\ images[i].URI = images[j].URI
        /\ wpc[i] = "getting"
        /\ wpc[j] = "set"
        /\ images[i].URI \in DOMAIN cache
        /\ ~Expired(cache[images[i].URI], now)

\* C34: every worker that waits for a semaphore slot finishes in the end,
\* with a result or an error, and the cycle that has started its fan-out
\* publishes and returns in the end; the slots taken never exceed
\* SemaphoreCap, a worker gives its slot back when it returns, on either
\* path, and when the cycle has returned all slots are free.
FanOutTerminates ==
    /\ \A i \in Workers :
         (wpc[i] = "acquire") ~> (wpc[i] \in {"done", "failed"})
    /\ (spc = "spawn") ~> (spc = "select" /\ cycleResult = "ok")
    /\ [](semaphore \in 0..SemaphoreCap)
    /\ [](spc = "select" => (semaphore = 0 /\ wg = 0))
    /\ [][\A i \in Workers :
            (wpc[i] \in {"fetch", "store"}
               /\ wpc'[i] \in {"done", "failed"})
                => semaphore' = semaphore - 1]_vars

\* A cycle over more images than there are slots has returned, with a
\* failed worker and a successful one, and all slots are free.
FanOutTerminatesWitness ==
    /\ spc = "select"
    /\ Len(images) > SemaphoreCap
    /\ Failed # {}
    /\ Failed # Spawned
    /\ semaphore = 0

\* C35: a step that changes the cache or the clock (a Set, a cleanup pass,
\* the passing of time) leaves the published map and time as they are; they
\* change only in the publish steps of a cycle.
SnapshotOutlivesCache ==
    [][/\ (cache' # cache \/ now' # now) => Published' = Published
       /\ Published' # Published
            => (spc \in {"lock", "swap"} /\ cycle' = cycle)]_vars

\* Between two cycles the published snapshot holds an entry for an image
\* whose cache entry a cleanup pass has removed.
SnapshotOutlivesCacheWitness ==
    /\ spc = "select"
    /\ \E k \in DOMAIN Published[1] :
         /\ k \notin DOMAIN cache
         /\ k \in DOMAIN lastFetch
         /\ now > lastFetch[k].at + TTL

\* C36: when a worker's cache lookup returns a result, it is the result of
\* the latest source call for that URI, stored at most TTL before the
\* lookup, and the worker makes no source call; when the cache holds an
\* entry stored more than TTL ago the lookup misses and the worker calls
\* the source; an entry stored at most TTL ago is never missed.
StalenessBounded ==
    [][\A i \in Workers :
         (wpc[i] = "get" /\ wpc'[i] # "get")
            => IF wpc'[i] = "store"
               THEN /\ images[i].URI \in DOMAIN lastFetch
                    /\ wvuln'[i] = lastFetch[images[i].URI].result
                    /\ now - lastFetch[images[i].URI].at <= TTL
                    /\ srcCalls' = srcCalls
               ELSE /\ wpc'[i] = "fetch"
                    /\ srcCalls' = srcCalls + 1
                    /\ images[i].URI \in DOMAIN cache
                         => now - lastFetch[images[i].URI].at > TTL]_vars

\* A worker of the second cycle holds the result the first cycle stored
\* exactly TTL ago, served from the cache.
StalenessBoundedWitness ==
    \E i \in Spawned :
        /\ cycle = 2
        /\ wpc[i] = "store"
        /\ wvuln[i].ref[1] = 1
        /\ now - lastFetch[images[i].URI].at = TTL
        /\ srcCalls = 0

ExpiryAgrees ==
    LET deleted == DOMAIN cache \ DOMAIN CacheCleanup(cache, now) IN
      /\ \A k \in DOMAIN cache :
           /\ k \in deleted => CacheGet(cache, k, now) = NilVuln
           /\ k \notin deleted => CacheGet(cache, k, now) = cache[k].Data
           /\ k \in deleted <=> now > cache[k].ExpiresAt
      /\ CacheStats(cache, now).expired = Cardinality(deleted)
      /\ CacheStats(cache, now).total - CacheStats(cache, now).expired
           = Cardinality(DOMAIN CacheCleanup(cache, now))

\* A Get has just returned the result of an entry that is at exactly its
\* ExpiresAt, while another entry of the cache has expired.
ExpiryAgreesWitness ==
    /\ ret.op = "Get"
    /\ ret.at = now
    /\ ret.key \in DOMAIN cache
    /\ cache[ret.key].ExpiresAt = now
    /\ ret.data = cache[ret.key].Data
    /\ ret.data # NilVuln
    /\ \E k \in DOMAIN cache : now > cache[k].ExpiresAt

\* C39: as long as no cycle has published (the engine still holds the map
\* NewEngine made), GetVulnerabilityData returns a map of its own that is
\* empty, with the zero time; a cycle that fails at discovery leaves the
\* published map and time as they were and Start in its select with the
\* ticker running, never stopped, where a pending tick starts the next cycle.
BeforeFirstPublish ==
    /\ [](spc # "stopped")
    /\ []((spc = "select" /\ cycleResult = "error")
            => /\ tickerRunning
               /\ (tickPending /\ cycle < MaxCycles) => ENABLED SelectTick)
    /\ [][/\ (spc = "discover" /\ cycleResult' = "error")
               => /\ spc' = "select"
                  /\ Published' = Published
                  /\ vulnerabilityData' = vulnerabilityData
          /\ \A r \in Readers :
               (reader[r].pc = "copy" /\ reader'[r].pc = "have"
                  /\ vulnerabilityData = MapOfCycle(0))
                   => /\ reader'[r].data \in DOMAIN maps'
                      /\ reader'[r].data # vulnerabilityData
                      /\ maps'[reader'[r].data] = EmptyMap
                      /\ reader'[r].time = 0]_vars

\* The initial cycle failed at discovery, a handler was given the empty map
\* and the zero time, and a tick has started the second cycle.
BeforeFirstPublishWitness ==
    /\ cycle = 2
    /\ spc = "discover"
    /\ vulnerabilityData = MapOfCycle(0)
    /\ reader[1].pc = "have"
    /\ reader[1].data \in DOMAIN maps
    /\ maps[reader[1].data] = EmptyMap
    /\ reader[1].time = 0

====
